---------------------------- MODULE Spec2Model ----------------------------
(***************************************************************************)
(* Model of the Trex card-recommendation engines of this repository.       *)
(*                                                                         *)
(* EnhancedTrexAI (lib/services/enhanced_trex_ai_integration.py): one      *)
(* engine object with its counters, and get_ai_move as a sequence of       *)
(* stages per calling thread: the increment of decisions_made, validation, *)
(* strategic analysis, the policy attempt, the rule-based fallback and the *)
(* update of confidence_total.                                             *)
(*                                                                         *)
(* Numbers: a confidence is kept in hundredths (0.65 is 65, 1.0 is 100).   *)
(* Lists of which the code only takes the length (player_cards,            *)
(* played_cards) are kept as that length.                                  *)
(***************************************************************************)
EXTENDS Integers, Sequences, FiniteSets, TLC

(***************************************************************************)
(* Bounds of the model.                                                    *)
(***************************************************************************)
\* longest valid_cards list of a request
MaxLen == 2
\* number of get_ai_move calls made on the engine
MaxCalls == 2

\* the cards requests are built from: the four of clubs, the queen of
\* diamonds, the four of hearts (same rank as the club) and the king of hearts
CardPool == {2, 23, 28, 37}

\* the threads that may call the engine
AllThreads == {1, 2}

(***************************************************************************)
(* Game modes.  A request's game_mode is any value; NonStringMode stands   *)
(* for a value that is no string (it has no lower() method).               *)
(***************************************************************************)
NonStringMode == "<not a string>"

KnownModes == {"kingdom", "hearts", "queens", "diamonds", "king_of_hearts"}

ModeValues == KnownModes \cup {"Hearts", "no_trumps", NonStringMode}

\* str.lower() on the mode strings of ModeValues
Lower(s) == IF s = "Hearts" THEN "hearts" ELSE s

RequiredFields == <<"player_cards", "valid_cards", "game_mode", "current_player">>

(***************************************************************************)
(* Card predicates.                                                        *)
(***************************************************************************)
Rank(c) == c % 13

\* the mutant of _is_heart_card: the upper limit is one card too high
_is_heart_card_wide(card) == 26 <= card /\ card <= 39

_is_heart_card(card) == 26 <= card /\ card <= 38

_is_queen_card(card) == card % 13 = 10

_is_king_of_hearts(card) == card = 37

_is_diamond_card(card) == 13 <= card /\ card <= 25

_is_penalty_card(card, game_mode) ==
    LET mode == Lower(game_mode) IN
    IF mode = "hearts" THEN _is_heart_card(card)
    ELSE IF mode = "queens" THEN _is_queen_card(card)
    ELSE IF mode = "king_of_hearts" THEN _is_king_of_hearts(card)
    ELSE IF mode = "diamonds" THEN _is_diamond_card(card)
    ELSE FALSE

(***************************************************************************)
(* List helpers, as Python computes them.  A list comprehension with a     *)
(* condition is SelectSeq.                                                 *)
(***************************************************************************)
\* min(cards, key=rank): the first element of least rank
MinByRank(cards) ==
    LET i == CHOOSE i \in 1..Len(cards) :
                 /\ \A j \in 1..Len(cards) : Rank(cards[i]) <= Rank(cards[j])
                 /\ \A j \in 1..(i-1) : Rank(cards[j]) > Rank(cards[i])
    IN cards[i]

\* max(cards, key=rank): the first element of greatest rank
MaxByRank(cards) ==
    LET i == CHOOSE i \in 1..Len(cards) :
                 /\ \A j \in 1..Len(cards) : Rank(cards[i]) >= Rank(cards[j])
                 /\ \A j \in 1..(i-1) : Rank(cards[j]) < Rank(cards[i])
    IN cards[i]

\* insertion of c into a list sorted by rank, after the elements of equal rank
RECURSIVE InsertByRank(_, _)
InsertByRank(c, sorted) ==
    IF sorted = << >> THEN <<c>>
    ELSE IF Rank(c) < Rank(Head(sorted)) THEN <<c>> \o sorted
    ELSE <<Head(sorted)>> \o InsertByRank(c, Tail(sorted))

\* sorted(cards, key=rank): stable
RECURSIVE SortedByRank(_)
SortedByRank(cards) ==
    IF cards = << >> THEN << >>
    ELSE InsertByRank(cards[Len(cards)], SortedByRank(SubSeq(cards, 1, Len(cards) - 1)))

(***************************************************************************)
(* Requests.  A request is the game_state dictionary: `present` is the set *)
(* of required keys it carries; player_cards and played_cards are their    *)
(* lengths.                                                                *)
(***************************************************************************)
\* the lists of distinct cards of CardPool of length at most n
SeqsUpTo(n) ==
    UNION { { s \in [1..k -> CardPool] : \A i, j \in 1..k : i # j => s[i] # s[j] }
            : k \in 0..n }

\* hand sizes of the requests
HandSizes == {9}

\* cards already played in the trick
PlayedCounts == 0..3

AllFields == {RequiredFields[i] : i \in 1..Len(RequiredFields)}

\* requests that carry every required field
CompleteRequests ==
    [present : {AllFields}, player_cards : HandSizes, valid_cards : SeqsUpTo(MaxLen),
     game_mode : ModeValues, played_cards : PlayedCounts]

\* requests that lack at least one required field
IncompleteRequests ==
    [present : (SUBSET AllFields) \ {AllFields}, player_cards : {3},
     valid_cards : {<<2, 37>>}, game_mode : {"hearts"}, played_cards : {0}]

Requests == CompleteRequests \cup IncompleteRequests

(***************************************************************************)
(* _process_enhanced_game_state                                            *)
(***************************************************************************)
\* the first required field the request lacks, "" when it lacks none
FirstMissing(game_state) ==
    LET missing == {i \in 1..Len(RequiredFields) : RequiredFields[i] \notin game_state.present}
    IN IF missing = {} THEN ""
       ELSE RequiredFields[CHOOSE i \in missing : \A j \in missing : i <= j]

\* a mutant of _classify_position: two played cards make a late position
_classify_position_late_at_two(player_position, cards_played) ==
    IF cards_played <= 1 THEN "early_position"
    ELSE IF cards_played >= 2 THEN "late_position"
    ELSE "middle_position"

\* the mutant of _classify_position: the last seat is in late position
_classify_position_by_seat(player_position, cards_played) ==
    IF player_position = 3 THEN "late_position"
    ELSE IF cards_played <= 1 THEN "early_position"
    ELSE IF cards_played >= 3 THEN "late_position"
    ELSE "middle_position"

_classify_position(player_position, cards_played) ==
    IF cards_played <= 1 THEN "early_position"
    ELSE IF cards_played >= 3 THEN "late_position"
    ELSE "middle_position"

\* game_state.get(key, default)
Get(game_state, key, default) ==
    IF key \in DOMAIN game_state THEN game_state[key] ELSE default

_classify_game_phase(trick_number) ==
    IF trick_number <= 4 THEN "early_game"
    ELSE IF trick_number <= 9 THEN "mid_game"
    ELSE "end_game"

\* cards_played_history is kept as the set of its cards (it holds no card twice)
_process_enhanced_game_state(game_state) ==
    IF FirstMissing(game_state) # ""
    THEN [valid |-> FALSE, error |-> FirstMissing(game_state)]
    ELSE [valid |-> TRUE,
          player_cards |-> game_state.player_cards,
          valid_cards |-> game_state.valid_cards,
          game_mode |-> game_state.game_mode,
          played_cards |-> game_state.played_cards,
          tricks_won |-> Get(game_state, "tricks_won", 0),
          player_position |-> Get(game_state, "player_position", 1),
          round_number |-> Get(game_state, "round_number", 1),
          trick_number |-> Get(game_state, "trick_number", 1),
          scores |-> Get(game_state, "scores", <<0, 0, 0, 0>>),
          cards_played_history |-> Get(game_state, "cards_played_history", {}),
          hand_size |-> game_state.player_cards,
          cards_remaining |-> 52 - Cardinality(Get(game_state, "cards_played_history", {})),
          position_type |-> _classify_position(Get(game_state, "player_position", 1),
                                               game_state.played_cards),
          game_phase |-> _classify_game_phase(Get(game_state, "trick_number", 1))]

(***************************************************************************)
(* _analyze_strategic_context                                              *)
(***************************************************************************)
_assess_hearts_risk(game_state) ==
    LET valid_cards == game_state.valid_cards
        heart_cards == SelectSeq(valid_cards, _is_heart_card)
    IN IF 10 * Len(heart_cards) >= 7 * Len(valid_cards) THEN "high"
       ELSE IF Len(heart_cards) > 0 THEN "medium"
       ELSE "low"

_assess_queens_risk(game_state) ==
    LET queen_cards == SelectSeq(game_state.valid_cards, _is_queen_card)
    IN IF queen_cards # << >> THEN "high" ELSE "low"

_assess_king_hearts_risk(game_state) ==
    LET king_hearts == SelectSeq(game_state.valid_cards, _is_king_of_hearts)
    IN IF king_hearts # << >> THEN "high" ELSE "low"

_assess_diamonds_risk(game_state) ==
    LET valid_cards == game_state.valid_cards
        diamond_cards == SelectSeq(valid_cards, _is_diamond_card)
    IN IF 2 * Len(diamond_cards) >= Len(valid_cards) THEN "high"
       ELSE IF diamond_cards # << >> THEN "medium"
       ELSE "low"

\* card counting over the cards not in cards_played_history
_analyze_remaining_cards(game_state) ==
    LET remaining_cards == (0..51) \ game_state.cards_played_history
    IN [total_remaining |-> Cardinality(remaining_cards),
        hearts_remaining |-> Cardinality({c \in remaining_cards : _is_heart_card(c)}),
        queens_remaining |-> Cardinality({c \in remaining_cards : _is_queen_card(c)}),
        high_cards_remaining |-> Cardinality({c \in remaining_cards : c % 13 >= 9})]

_plan_future_tricks(game_state) ==
    LET hand_size == game_state.player_cards
    IN IF hand_size > 8 THEN <<"Early game: Establish card knowledge">>
       ELSE IF hand_size > 4 THEN <<"Mid game: Position for endgame">>
       ELSE <<"End game: Execute optimal sequence">>

\* game_state['game_mode'].lower() raises when the mode is no string
AnalyzeRaises(game_state) == game_state.game_mode = NonStringMode

\* the context dictionary: exactly the keys the code sets
_analyze_strategic_context(game_state) ==
    LET position_type == _classify_position(game_state.player_position, game_state.played_cards)
        game_mode == Lower(game_state.game_mode)
    IN [risk_level |-> IF position_type = "early_position" THEN "low" ELSE "medium",
        strategy |-> IF position_type = "early_position" THEN "conservative"
                     ELSE IF position_type = "late_position" THEN "informed"
                     ELSE "balanced",
        position_advantage |-> IF position_type = "late_position" THEN "high" ELSE "neutral",
        penalty_risk |-> IF game_mode = "hearts" THEN _assess_hearts_risk(game_state)
                         ELSE IF game_mode = "queens" THEN _assess_queens_risk(game_state)
                         ELSE IF game_mode = "king_of_hearts" THEN _assess_king_hearts_risk(game_state)
                         ELSE IF game_mode = "diamonds" THEN _assess_diamonds_risk(game_state)
                         ELSE "low",
        card_counting |-> _analyze_remaining_cards(game_state),
        opponent_analysis |-> << >>,
        multi_trick_planning |-> _plan_future_tricks(game_state)]

(***************************************************************************)
(* Rule engine: the three selection policies.                              *)
(***************************************************************************)
\* the mutant of _select_conservative_card: the sort key (the rank) is
\* returned in place of the card
_select_conservative_card_key(valid_cards, game_state) ==
    LET safe(c) == ~ _is_penalty_card(c, game_state.game_mode)
        safe_cards == SelectSeq(valid_cards, safe)
    IN IF safe_cards # << >> THEN Rank(MinByRank(safe_cards)) ELSE Rank(MinByRank(valid_cards))

_select_conservative_card(valid_cards, game_state) ==
    LET safe(c) == ~ _is_penalty_card(c, game_state.game_mode)
        safe_cards == SelectSeq(valid_cards, safe)
    IN IF safe_cards # << >> THEN MinByRank(safe_cards) ELSE MinByRank(valid_cards)

_select_balanced_card(valid_cards, game_state) ==
    LET game_mode == Lower(game_state.game_mode)
        safe(c) == ~ _is_penalty_card(c, game_mode)
        safe_cards == SelectSeq(valid_cards, safe)
        sorted_cards == SortedByRank(valid_cards)
    IN IF game_mode \in {"hearts", "queens", "king_of_hearts", "diamonds"} /\ safe_cards # << >>
       THEN safe_cards[(Len(safe_cards) \div 2) + 1]
       ELSE sorted_cards[(Len(sorted_cards) \div 2) + 1]

\* the mutant of _select_informed_card: the lowest safe card is played
_select_informed_card_lowest(valid_cards, game_state, strategic_context) ==
    LET safe(c) == ~ _is_penalty_card(c, game_state.game_mode)
        safe_cards == SelectSeq(valid_cards, safe)
    IN IF game_state.played_cards >= 2
       THEN IF safe_cards # << >> THEN MinByRank(safe_cards) ELSE MinByRank(valid_cards)
       ELSE _select_balanced_card(valid_cards, game_state)

_select_informed_card(valid_cards, game_state, strategic_context) ==
    LET safe(c) == ~ _is_penalty_card(c, game_state.game_mode)
        safe_cards == SelectSeq(valid_cards, safe)
    IN IF game_state.played_cards >= 2
       THEN IF safe_cards # << >> THEN MaxByRank(safe_cards) ELSE MinByRank(valid_cards)
       ELSE _select_balanced_card(valid_cards, game_state)

(***************************************************************************)
(* Policy attempt: _get_elite_ai_decision and what it calls.               *)
(***************************************************************************)
\* a feature is kept as its multiple of 1/52
FeatureScale == 52

\* target_size
TargetSize == 128

\* risk_levels.get(risk_level, 0.5)
RiskLevelFeature(risk_level) ==
    IF risk_level = "low" THEN 0
    ELSE IF risk_level = "high" THEN FeatureScale
    ELSE FeatureScale \div 2

\* 1.0 if the condition holds else 0.0
Flag(condition) == IF condition THEN FeatureScale ELSE 0

_prepare_neural_network_input(game_state, strategic_context) ==
    LET position_type == _classify_position(game_state.player_position, game_state.played_cards)
        mode == Lower(game_state.game_mode)
        features ==
            << (FeatureScale \div 13) * game_state.player_cards,
               (FeatureScale \div 13) * game_state.tricks_won,
               (FeatureScale \div 13) * game_state.trick_number,
               (FeatureScale \div 4) * game_state.played_cards,
               Flag(mode = "kingdom"), Flag(mode = "hearts"), Flag(mode = "queens"),
               Flag(mode = "diamonds"), Flag(mode = "king_of_hearts"),
               RiskLevelFeature(strategic_context.risk_level),
               Flag(position_type = "early_position"),
               Flag(position_type = "late_position") >>
    IN IF Len(features) < TargetSize
       THEN features \o [i \in 1..(TargetSize - Len(features)) |-> 0]
       ELSE SubSeq(features, 1, TargetSize)

RECURSIVE SumSeq(_)
SumSeq(p) == IF p = << >> THEN 0 ELSE Head(p) + SumSeq(Tail(p))

\* probabilities, in hundredths, the inference may give one card
ProbLevels == {20, 30, 40, 50, 60, 100}

\* _simulate_neural_network_inference: some distribution over the valid
\* cards (random in the code): each probability positive, the sum 1; the
\* empty array for no cards
_simulate_neural_network_inference(valid_cards) ==
    IF valid_cards = << >> THEN {<< >>}
    ELSE {p \in [1..Len(valid_cards) -> ProbLevels] : SumSeq(p) = 100}

\* np.argmax: the first index of the greatest probability
ArgMax(p) ==
    CHOOSE i \in 1..Len(p) : /\ \A j \in 1..Len(p) : p[i] >= p[j]
                             /\ \A j \in 1..(i-1) : p[j] < p[i]

\* the mutant of ReasoningRaises: the key is found, the reasoning is built
ReasoningNeverRaises(card, game_state, strategic_context) == FALSE

\* _generate_strategic_reasoning reads strategic_context['position_type']:
\* a KeyError when the context has no such key
ReasoningRaises(card, game_state, strategic_context) ==
    "position_type" \notin DOMAIN strategic_context

\* the parts of the reasoning text: position, mode, risk
_generate_strategic_reasoning(card, game_state, strategic_context) ==
    LET game_mode == Lower(game_state.game_mode)
        position_type == _classify_position(game_state.player_position, game_state.played_cards)
    IN <<position_type,
         IF game_mode = "hearts" THEN (IF _is_heart_card(card) THEN "heart" ELSE "no heart")
         ELSE IF game_mode = "queens" THEN (IF _is_queen_card(card) THEN "queen" ELSE "no queen")
         ELSE "",
         strategic_context.risk_level, card>>

FailedDecision == [success |-> FALSE, error |-> "Elite AI decision failed"]

\* the primary model is the Generation 100 entry of self.models
PrimaryModel == "Gen100"

\* _get_elite_ai_decision, given the probabilities the inference returns.
\* Inside its try block np.argmax raises on an empty array and the reasoning
\* may raise; every exception ends in FailedDecision.
_get_elite_ai_decision(loaded_models, game_state, strategic_context, card_probabilities) ==
    IF PrimaryModel \notin loaded_models \/ card_probabilities = << >>
    THEN FailedDecision
    ELSE LET best_card_idx == ArgMax(card_probabilities)
             best_card == game_state.valid_cards[best_card_idx]
         IN IF ReasoningRaises(best_card, game_state, strategic_context)
            THEN FailedDecision
            ELSE [success |-> TRUE,
                  best_card |-> best_card,
                  confidence |-> card_probabilities[best_card_idx],
                  reasoning |-> _generate_strategic_reasoning(best_card, game_state, strategic_context),
                  model_used |-> "Enhanced Neural Network (Generation 100)",
                  strategic_context |-> strategic_context,
                  performance_level |-> "90% human",
                  decision_type |-> "neural_network"]

(***************************************************************************)
(* Rule-based fallback: _get_enhanced_fallback_decision.                   *)
(***************************************************************************)
BaseConfidence == 65
PositionBonus == 20
ConfidenceCap == 85

Min(a, b) == IF a <= b THEN a ELSE b

\* the mutant of FallbackConfidence: the bonus is added to 0.85 and the sum
\* is not capped
FallbackConfidenceUncapped(strategic_context) ==
    ConfidenceCap + (IF strategic_context.position_advantage = "high" THEN PositionBonus ELSE 0)

\* another mutant of FallbackConfidence: the bonus of the late position is
\* left out
FallbackConfidenceNoBonus(strategic_context) == Min(ConfidenceCap, BaseConfidence)

\* min(0.85, 0.65 + (position_advantage == 'high') * 0.2)
FallbackConfidence(strategic_context) ==
    Min(ConfidenceCap,
        BaseConfidence + (IF strategic_context.position_advantage = "high" THEN PositionBonus ELSE 0))

\* the mutant of FallbackCard: with few cards left in the hand the engine
\* plays conservatively whatever the strategy
FallbackCardByHandSize(game_state, strategic_context) ==
    IF strategic_context.strategy = "conservative" \/ game_state.hand_size <= 4
    THEN _select_conservative_card(game_state.valid_cards, game_state)
    ELSE IF strategic_context.strategy = "informed"
    THEN _select_informed_card(game_state.valid_cards, game_state, strategic_context)
    ELSE _select_balanced_card(game_state.valid_cards, game_state)

FallbackCard(game_state, strategic_context) ==
    IF strategic_context.strategy = "conservative"
    THEN _select_conservative_card(game_state.valid_cards, game_state)
    ELSE IF strategic_context.strategy = "informed"
    THEN _select_informed_card(game_state.valid_cards, game_state, strategic_context)
    ELSE _select_balanced_card(game_state.valid_cards, game_state)

_create_error_response(error_message) ==
    [success |-> FALSE,
     error |-> error_message,
     best_card |-> 0,
     confidence |-> 0,
     reasoning |-> <<"Error", error_message>>,
     model_used |-> "Error Handler"]

_get_enhanced_fallback_decision(game_state, strategic_context) ==
    IF game_state.valid_cards = << >>
    THEN _create_error_response("No valid cards")
    ELSE [success |-> TRUE,
          best_card |-> FallbackCard(game_state, strategic_context),
          confidence |-> FallbackConfidence(strategic_context),
          reasoning |-> <<"Strategic", strategic_context.strategy,
                          _classify_position(game_state.player_position, game_state.played_cards)>>,
          model_used |-> "Enhanced Strategic Rules",
          strategic_context |-> strategic_context,
          performance_level |-> "70% human",
          decision_type |-> "strategic_fallback"]

(***************************************************************************)
(* TrexAIForFlutter of trex_ai_flutter_integration.py: the loader and the  *)
(* functions of its get_ai_move.                                           *)
(***************************************************************************)
\* the module defines the class only when its imports succeeded (otherwise
\* the annotation np.ndarray raises NameError), so an engine that exists
\* has PYTORCH_AVAILABLE = True
PYTORCH_AVAILABLE == TRUE

\* the mutant of BEST_MODELS: Generation 99 comes first
BEST_MODELS_reversed == <<"Generation 99 (2nd BEST)", "Generation 100 (BEST)">>

\* self.BEST_MODELS, in order of preference, by name
BEST_MODELS == <<"Generation 100 (BEST)", "Generation 99 (2nd BEST)">>

\* what the loader finds for one model: its file is missing, PPO.load
\* raises, or PPO.load returns the model
LoadOutcomes == {"missing", "fails", "loads"}

\* the attempts of the loop of load_best_available_model, given what the
\* loader finds for each model: it stops at the first model that loads
RECURSIVE LoadAttempts(_, _)
LoadAttempts(found, i) ==
    IF i > Len(BEST_MODELS) THEN << >>
    ELSE <<[name |-> BEST_MODELS[i], outcome |-> found[i]]>>
           \o (IF found[i] = "loads" THEN << >> ELSE LoadAttempts(found, i + 1))

\* load_best_available_model: the attempts it makes and the name of the
\* model it loads, "None" when it returns False
load_best_available_model(found) ==
    IF ~ PYTORCH_AVAILABLE THEN [attempts |-> << >>, model_name |-> "None"]
    ELSE LET attempts == LoadAttempts(found, 1)
             last == attempts[Len(attempts)]
         IN [attempts |-> attempts,
             model_name |-> IF last.outcome = "loads" THEN last.name ELSE "None"]

\* min(valid_cards): the lowest card index
MinCard(cards) == CHOOSE c \in {cards[i] : i \in 1..Len(cards)} :
                      \A j \in 1..Len(cards) : c <= cards[j]

_fallback_move(game_state) ==
    LET valid_cards == Get(game_state, "valid_cards", << >>)
    IN IF valid_cards = << >>
       THEN [best_card |-> 0, reasoning |-> "No valid cards available",
             model_used |-> "fallback", success |-> FALSE, confidence |-> 0]
       ELSE [best_card |-> MinCard(valid_cards),
             reasoning |-> "Fallback strategy (neural network unavailable)",
             model_used |-> "simple_heuristic", success |-> TRUE, confidence |-> 60]

_convert_action_to_card(action, game_state) ==
    LET valid_cards == Get(game_state, "valid_cards", << >>)
    IN IF valid_cards = << >>
       THEN [best_card |-> 0, reasoning |-> "No valid cards", success |-> FALSE]
       ELSE [best_card |-> IF 0 <= action /\ action < Len(valid_cards)
                           THEN valid_cards[action + 1]
                           ELSE valid_cards[(action % Len(valid_cards)) + 1],
             reasoning |-> "5M-step neural network selected"]

\* result.update({'model_used': ..., 'success': True, 'confidence': 0.95}):
\* the keys of the update replace those of the result
PredictionResult(action, game_state, model_name) ==
    [model_used |-> model_name, success |-> TRUE, confidence |-> 95]
        @@ _convert_action_to_card(action, game_state)

(***************************************************************************)
(* The engine and its callers.                                             *)
(***************************************************************************)
VARIABLES
    models,            \* self.models: the names of the loaded models
    model_loaded,      \* self.model_loaded
    strategic_memory,  \* self.strategic_memory
    penalty_tracker,   \* self.penalty_tracker
    decisions_made,    \* self.decisions_made
    confidence_total,  \* self.confidence_total, in hundredths
    pc,                \* per thread: where its get_ai_move call stands
    game_state_in,     \* per thread: the request of the call
    processed_state,   \* per thread: local processed_state
    strategic_context, \* per thread: local strategic_context
    card_probs,        \* per thread: the probabilities behind a policy decision
    response,          \* per thread: the response built, returned at "done"
    loaded_value,      \* per thread: the counter value read by an increment
    stages,            \* per thread: the stages the call has entered, in order
    calls,             \* number of calls started
    ok_calls,          \* number of calls that returned success = True
    ok_confidence,     \* sum of the confidences those calls returned
    probe_in,          \* the arguments of a function applied on its own
    probe_out,         \* the results of the functions applied to probe_in
    flutter_ai,        \* the TrexAIForFlutter object: model_name, model_loaded
    flutter_pc,        \* where the call of its get_ai_move stands
    flutter_request,   \* the request of that call
    flutter_attempts,  \* the load attempts made during that call, in order
    flutter_response,  \* the response that call returns
    flutter_calls      \* number of calls of its get_ai_move started

vars == <<models, model_loaded, strategic_memory, penalty_tracker, decisions_made,
          confidence_total, pc, game_state_in, processed_state, strategic_context,
          card_probs, response, loaded_value, stages, calls, ok_calls,
          ok_confidence, probe_in, probe_out, flutter_ai, flutter_pc,
          flutter_request, flutter_attempts, flutter_response, flutter_calls>>

\* the variables of the specifications that apply one function on its own
probe_vars == <<probe_in, probe_out>>

\* the TrexAIForFlutter object and the call of its get_ai_move
flutter_vars == <<flutter_ai, flutter_pc, flutter_request, flutter_attempts,
                  flutter_response, flutter_calls>>

engine_fixed == <<models, model_loaded, strategic_memory, penalty_tracker>>

NoValue == [none |-> TRUE]

\* __init__ and _load_elite_models: a model is loaded when its policy file
\* exists; model_loaded is set by the primary model alone
EngineInit ==
    /\ models \in SUBSET {"Gen100", "Gen99"}
    /\ model_loaded = (PrimaryModel \in models)
    /\ strategic_memory = << >>
    /\ penalty_tracker = [hearts |-> << >>, queen_spades |-> FALSE,
                          king_hearts |-> FALSE, diamonds |-> << >>]
    /\ decisions_made = 0
    /\ confidence_total = 0
    /\ pc = [t \in AllThreads |-> "idle"]
    /\ game_state_in = [t \in AllThreads |-> NoValue]
    /\ processed_state = [t \in AllThreads |-> NoValue]
    /\ strategic_context = [t \in AllThreads |-> NoValue]
    /\ card_probs = [t \in AllThreads |-> << >>]
    /\ response = [t \in AllThreads |-> NoValue]
    /\ loaded_value = [t \in AllThreads |-> 0]
    /\ stages = [t \in AllThreads |-> << >>]
    /\ calls = 0
    /\ ok_calls = 0
    /\ ok_confidence = 0

\* TrexAIForFlutter.__init__: no model is loaded, no call is made
FlutterInit ==
    /\ flutter_ai = [model_name |-> "None", model_loaded |-> FALSE]
    /\ flutter_pc = "idle"
    /\ flutter_request = NoValue
    /\ flutter_attempts = << >>
    /\ flutter_response = NoValue
    /\ flutter_calls = 0

\* the engine after construction; no function is applied on its own
Init ==
    /\ EngineInit
    /\ FlutterInit
    /\ probe_in = NoValue
    /\ probe_out = NoValue

\* get_ai_move is called: self.decisions_made += 1 begins by loading the counter
Call(t, game_state) ==
    /\ pc[t] = "idle"
    /\ calls < MaxCalls
    /\ calls' = calls + 1
    /\ game_state_in' = [game_state_in EXCEPT ![t] = game_state]
    /\ loaded_value' = [loaded_value EXCEPT ![t] = decisions_made]
    /\ pc' = [pc EXCEPT ![t] = "store_decisions"]
    /\ stages' = [stages EXCEPT ![t] = << >>]
    /\ UNCHANGED <<probe_vars, flutter_vars, engine_fixed, decisions_made, confidence_total, processed_state,
                   strategic_context, card_probs, response, ok_calls, ok_confidence>>

\* self.decisions_made += 1 ends by storing the incremented value
StoreDecisions(t) ==
    /\ pc[t] = "store_decisions"
    /\ decisions_made' = loaded_value[t] + 1
    /\ pc' = [pc EXCEPT ![t] = "validate"]
    /\ UNCHANGED <<probe_vars, flutter_vars, engine_fixed, confidence_total, game_state_in, processed_state,
                   strategic_context, card_probs, response, loaded_value, stages,
                   calls, ok_calls, ok_confidence>>

\* a response is complete: the call returns it
Finish(t, r) ==
    /\ response' = [response EXCEPT ![t] = r]
    /\ pc' = [pc EXCEPT ![t] = "done"]

\* the mutant of ExceptHandler: no except clause, the exception leaves
\* get_ai_move
ExceptHandlerMissing(t, e) ==
    /\ pc' = [pc EXCEPT ![t] = "raised"]
    /\ UNCHANGED response

\* except Exception as e: return self._create_error_response(str(e))
ExceptHandler(t, e) == Finish(t, _create_error_response(e))

\* processed_state = self._process_enhanced_game_state(game_state), and the
\* return of the error response when it is not valid
Validate(t) ==
    /\ pc[t] = "validate"
    /\ stages' = [stages EXCEPT ![t] = Append(@, "validate")]
    /\ LET processed == _process_enhanced_game_state(game_state_in[t])
       IN /\ processed_state' = [processed_state EXCEPT ![t] = processed]
          /\ IF processed.valid
             THEN /\ pc' = [pc EXCEPT ![t] = "analyze"]
                  /\ UNCHANGED response
             ELSE Finish(t, _create_error_response("Invalid game state"))
    /\ UNCHANGED <<probe_vars, flutter_vars, engine_fixed, decisions_made, confidence_total, game_state_in,
                   strategic_context, card_probs, loaded_value, calls, ok_calls, ok_confidence>>

\* strategic_context = self._analyze_strategic_context(processed_state); an
\* exception it raises is caught by get_ai_move's handler
Analyze(t) ==
    /\ pc[t] = "analyze"
    /\ stages' = [stages EXCEPT ![t] = Append(@, "analyze")]
    /\ IF AnalyzeRaises(processed_state[t])
       THEN /\ ExceptHandler(t, "AttributeError")
            /\ UNCHANGED strategic_context
       ELSE /\ strategic_context' = [strategic_context EXCEPT ![t] =
                                        _analyze_strategic_context(processed_state[t])]
            /\ pc' = [pc EXCEPT ![t] = IF model_loaded THEN "policy" ELSE "fallback"]
            /\ UNCHANGED response
    /\ UNCHANGED <<probe_vars, flutter_vars, engine_fixed, decisions_made, confidence_total, game_state_in,
                   processed_state, card_probs, loaded_value, calls, ok_calls, ok_confidence>>

\* the mutant of PolicyAttempt: a failed policy attempt is returned to the
\* caller as an error
PolicyAttemptSurfaces(t) ==
    /\ pc[t] = "policy"
    /\ stages' = [stages EXCEPT ![t] = Append(@, "policy")]
    /\ Finish(t, _create_error_response("Elite AI decision failed"))
    /\ UNCHANGED <<probe_vars, flutter_vars, engine_fixed, decisions_made, confidence_total, game_state_in,
                   processed_state, strategic_context, card_probs, loaded_value,
                   calls, ok_calls, ok_confidence>>

\* response = self._get_elite_ai_decision(...): on success the confidence is
\* added to confidence_total (the load of the counter is the last step here),
\* otherwise the call goes on to the fallback
PolicyAttempt(t) ==
    /\ pc[t] = "policy"
    /\ stages' = [stages EXCEPT ![t] = Append(@, "policy")]
    /\ \E p \in _simulate_neural_network_inference(processed_state[t].valid_cards) :
          LET r == _get_elite_ai_decision(models, processed_state[t], strategic_context[t], p)
          IN IF r.success
             THEN /\ response' = [response EXCEPT ![t] = r]
                  /\ card_probs' = [card_probs EXCEPT ![t] = p]
                  /\ loaded_value' = [loaded_value EXCEPT ![t] = confidence_total]
                  /\ pc' = [pc EXCEPT ![t] = "store_confidence"]
             ELSE /\ pc' = [pc EXCEPT ![t] = "fallback"]
                  /\ UNCHANGED <<response, card_probs, loaded_value>>
    /\ UNCHANGED <<probe_vars, flutter_vars, engine_fixed, decisions_made, confidence_total, game_state_in,
                   processed_state, strategic_context, calls, ok_calls, ok_confidence>>

\* return self._get_enhanced_fallback_decision(...): the error response for
\* no valid card, otherwise the rule engine's decision, whose confidence is
\* added to confidence_total (the load of the counter is the last step here)
Fallback(t) ==
    /\ pc[t] = "fallback"
    /\ stages' = [stages EXCEPT ![t] = Append(@, "fallback")]
    /\ LET r == _get_enhanced_fallback_decision(processed_state[t], strategic_context[t])
       IN IF r.success
          THEN /\ response' = [response EXCEPT ![t] = r]
               /\ loaded_value' = [loaded_value EXCEPT ![t] = confidence_total]
               /\ pc' = [pc EXCEPT ![t] = "store_confidence"]
          ELSE /\ Finish(t, r)
               /\ UNCHANGED loaded_value
    /\ UNCHANGED <<probe_vars, flutter_vars, engine_fixed, decisions_made, confidence_total, game_state_in,
                   processed_state, strategic_context, card_probs, calls, ok_calls, ok_confidence>>

\* the mutant of StoreConfidence: the confidence is assigned (=) where the
\* code adds it (+=)
StoreConfidenceAssigned(t) ==
    /\ pc[t] = "store_confidence"
    /\ confidence_total' = response[t].confidence
    /\ pc' = [pc EXCEPT ![t] = "done"]
    /\ UNCHANGED <<probe_vars, flutter_vars, engine_fixed, decisions_made, game_state_in, processed_state,
                   strategic_context, card_probs, response, loaded_value, stages,
                   calls, ok_calls, ok_confidence>>

\* self.confidence_total += confidence ends by storing the sum; the decision
\* is returned
StoreConfidence(t) ==
    /\ pc[t] = "store_confidence"
    /\ confidence_total' = loaded_value[t] + response[t].confidence
    /\ pc' = [pc EXCEPT ![t] = "done"]
    /\ UNCHANGED <<probe_vars, flutter_vars, engine_fixed, decisions_made, game_state_in, processed_state,
                   strategic_context, card_probs, response, loaded_value, stages,
                   calls, ok_calls, ok_confidence>>

\* the caller has the response; the locals of the call are gone
Return(t) ==
    /\ pc[t] = "done"
    /\ ok_calls' = ok_calls + (IF response[t].success THEN 1 ELSE 0)
    /\ ok_confidence' = ok_confidence + (IF response[t].success THEN response[t].confidence ELSE 0)
    /\ pc' = [pc EXCEPT ![t] = "idle"]
    /\ game_state_in' = [game_state_in EXCEPT ![t] = NoValue]
    /\ processed_state' = [processed_state EXCEPT ![t] = NoValue]
    /\ strategic_context' = [strategic_context EXCEPT ![t] = NoValue]
    /\ card_probs' = [card_probs EXCEPT ![t] = << >>]
    /\ response' = [response EXCEPT ![t] = NoValue]
    /\ loaded_value' = [loaded_value EXCEPT ![t] = 0]
    /\ stages' = [stages EXCEPT ![t] = << >>]
    /\ UNCHANGED <<probe_vars, flutter_vars, engine_fixed, decisions_made, confidence_total, calls>>

\* a small set of requests: a decision in late position, one in early
\* position, one with no valid card and one that lacks a field
SampleRequests ==
    { [present |-> AllFields, player_cards |-> 9, valid_cards |-> <<2, 37>>,
       game_mode |-> "hearts", played_cards |-> 3],
      [present |-> AllFields, player_cards |-> 9, valid_cards |-> <<23>>,
       game_mode |-> "queens", played_cards |-> 0],
      [present |-> AllFields, player_cards |-> 9, valid_cards |-> << >>,
       game_mode |-> "kingdom", played_cards |-> 2],
      [present |-> AllFields \ {"game_mode"}, player_cards |-> 3, valid_cards |-> <<2, 37>>,
       game_mode |-> "hearts", played_cards |-> 0] }

\* one step of a get_ai_move call of thread t, its request drawn from requests
Step(t, requests) ==
    \/ \E game_state \in requests : Call(t, game_state)
    \/ StoreDecisions(t)
    \/ Validate(t)
    \/ Analyze(t)
    \/ PolicyAttempt(t)
    \/ Fallback(t)
    \/ StoreConfidence(t)
    \/ Return(t)

\* one caller: the calls follow one another
Next == Step(1, Requests)

Spec == Init /\ [][Next]_vars

\* several threads call the same engine; the interpreter may switch threads
\* between the load and the store of an augmented assignment
NextConcurrent == \E t \in AllThreads : Step(t, SampleRequests)

SpecConcurrent == Init /\ [][NextConcurrent]_vars

\* the policy call as the call of a real model (the inference is a stand-in
\* for it): the call may not return, and nothing in _get_elite_ai_decision or
\* get_ai_move bounds the wait
PolicyBlocks(t) ==
    /\ pc[t] = "policy"
    /\ model_loaded
    /\ stages' = [stages EXCEPT ![t] = Append(@, "policy")]
    /\ pc' = [pc EXCEPT ![t] = "policy_blocked"]
    /\ UNCHANGED <<probe_vars, flutter_vars, engine_fixed, decisions_made, confidence_total, game_state_in,
                   processed_state, strategic_context, card_probs, response,
                   loaded_value, calls, ok_calls, ok_confidence>>

NextGateway == Step(1, SampleRequests) \/ PolicyBlocks(1)

\* a call that can take a step does take it
SpecGateway == Init /\ [][NextGateway]_vars /\ WF_vars(NextGateway)

(***************************************************************************)
(* Properties.                                                             *)
(***************************************************************************)
Elements(cards) == {cards[i] : i \in 1..Len(cards)}

\* thread t's call has returned the response response[t]
Done(t) == pc[t] = "done"

\* no call is in progress
Quiescent == \A t \in AllThreads : pc[t] = "idle"

\* the request carries all required fields
Complete(game_state) == game_state.present = AllFields

\* the request's mode is one of the five game modes, in any letter case
Recognised(game_state) ==
    /\ game_state.game_mode # NonStringMode
    /\ Lower(game_state.game_mode) \in KnownModes

HasKey(r, key) == key \in DOMAIN r

\* C1: every returned response to a request that carries all required
\* fields, a recognised game mode and a non-empty valid_cards list has
\* success = True and a best_card taken from valid_cards, with or without a
\* loaded model.
BestCardIsValid ==
    \A t \in AllThreads :
        ( /\ Done(t)
          /\ Complete(game_state_in[t])
          /\ Recognised(game_state_in[t])
          /\ game_state_in[t].valid_cards # << >> )
        => /\ response[t].success
           /\ response[t].best_card \in Elements(game_state_in[t].valid_cards)

\* C1 witness: with a model loaded, a decision among several valid cards in
\* a penalty mode has been returned.
BestCardIsValidWitness ==
    /\ Done(1)
    /\ model_loaded
    /\ Complete(game_state_in[1])
    /\ game_state_in[1].game_mode = "queens"
    /\ Len(game_state_in[1].valid_cards) = 2
    /\ response[1].success
    /\ response[1].best_card \in Elements(game_state_in[1].valid_cards)

\* the call got as far as the policy decision: validation and analysis passed
ReachedPolicyChoice(t) == "analyze" \in Elements(stages[t]) /\ strategic_context[t] # NoValue

\* the policy attempt was entered and gave no decision
PolicyFailed(t) == "policy" \in Elements(stages[t]) /\ card_probs[t] = << >>

\* C2: when a call with a non-empty valid_cards list reaches the policy
\* choice and either no model is loaded or the policy attempt fails, the
\* failure is not surfaced: the response returned has success = True and
\* decision_type 'strategic_fallback'.
PolicyFailureNotSurfaced ==
    \A t \in AllThreads :
        ( /\ Done(t)
          /\ ReachedPolicyChoice(t)
          /\ game_state_in[t].valid_cards # << >>
          /\ (~ model_loaded \/ PolicyFailed(t)) )
        => /\ response[t].success
           /\ HasKey(response[t], "decision_type")
           /\ response[t].decision_type = "strategic_fallback"
           /\ "fallback" \in Elements(stages[t])

\* C2 witness: a policy attempt failed on a loaded engine and the rule
\* engine's decision was returned.
PolicyFailureNotSurfacedWitness ==
    /\ Done(1)
    /\ model_loaded
    /\ PolicyFailed(1)
    /\ game_state_in[1].valid_cards # << >>
    /\ response[1].success
    /\ response[1].decision_type = "strategic_fallback"

\* C3: when a model is loaded and the policy call returned a probability
\* for each valid card, the response returned is a 'neural_network' decision
\* whose best_card is the valid card of greatest probability and whose
\* confidence is that probability.
PolicyDecisionReturned ==
    \A t \in AllThreads :
        ( /\ Done(t)
          /\ model_loaded
          /\ "policy" \in Elements(stages[t])
          /\ game_state_in[t].valid_cards # << >> )
        => /\ HasKey(response[t], "decision_type")
           /\ response[t].decision_type = "neural_network"
           /\ card_probs[t] # << >>
           /\ response[t].best_card = game_state_in[t].valid_cards[ArgMax(card_probs[t])]
           /\ response[t].confidence = card_probs[t][ArgMax(card_probs[t])]

\* C4: no call ends by raising: for every request, a finished call has
\* returned a response record whose success field is a boolean.
NoFailureCrossesBoundary ==
    \A t \in AllThreads :
        /\ pc[t] # "raised"
        /\ Done(t) => /\ HasKey(response[t], "success")
                      /\ response[t].success \in BOOLEAN

\* C4 witness: a request whose game_mode is no string has been answered with
\* an error response.
NoFailureCrossesBoundaryWitness ==
    /\ Done(1)
    /\ Complete(game_state_in[1])
    /\ game_state_in[1].game_mode = NonStringMode
    /\ response[1].success = FALSE

\* C5: a request whose valid_cards list is empty gets a response with
\* success = False and decision_type "error".
EmptyValidCardsIsError ==
    \A t \in AllThreads :
        ( /\ Done(t)
          /\ "valid_cards" \in game_state_in[t].present
          /\ game_state_in[t].valid_cards = << >> )
        => /\ ~ response[t].success
           /\ HasKey(response[t], "decision_type")
           /\ response[t].decision_type = "error"

\* C6: a request whose valid_cards list is empty is answered right after
\* validation: its call enters neither the policy attempt nor the rule
\* engine step.
EmptyValidCardsShortCircuits ==
    \A t \in AllThreads :
        ( /\ pc[t] # "idle"
          /\ Complete(game_state_in[t])
          /\ game_state_in[t].valid_cards = << >> )
        => /\ "policy" \notin Elements(stages[t])
           /\ "fallback" \notin Elements(stages[t])

\* C7: between calls, decisions_made is the number of calls that returned
\* success = True and confidence_total the sum of their confidences.
CountersCountDecisions ==
    Quiescent => /\ decisions_made = ok_calls
                 /\ confidence_total = ok_confidence

\* C8: no update of the counters is lost: once all calls have returned,
\* decisions_made has grown by one per call and confidence_total by the
\* confidence of every decision returned.
NoLostUpdate ==
    Quiescent => /\ decisions_made = calls
                 /\ confidence_total = ok_confidence

ConfidenceInUnitInterval ==
    \A t \in AllThreads :
        Done(t) => /\ HasKey(response[t], "confidence")
                   /\ 0 <= response[t].confidence
                   /\ response[t].confidence <= 100

\* C10 witness: a rule-engine decision of the highest confidence, 0.85, has
\* been returned.
ConfidenceInUnitIntervalWitness ==
    /\ Done(1)
    /\ response[1].success
    /\ response[1].decision_type = "strategic_fallback"
    /\ response[1].confidence = ConfidenceCap

\* C11: a request that lacks required fields gets a response with
\* success = False whose error names the first of the required fields
\* (player_cards, valid_cards, game_mode, current_player) it lacks.
MissingFieldIsNamed ==
    \A t \in AllThreads :
        (Done(t) /\ ~ Complete(game_state_in[t]))
        => /\ ~ response[t].success
           /\ response[t].error = FirstMissing(game_state_in[t])

\* C12: two calls with identical requests on the same engine return
\* identical responses.
IdenticalRequestsIdenticalResponses ==
    \A t, u \in AllThreads :
        (Done(t) /\ Done(u) /\ game_state_in[t] = game_state_in[u])
        => response[t] = response[u]

\* C12 witness: on an engine with a loaded model two calls with the same
\* request, a choice between two valid cards, have both gone through the
\* policy attempt and returned.
IdenticalRequestsWitness ==
    /\ model_loaded
    /\ Done(1) /\ Done(2)
    /\ game_state_in[1] = game_state_in[2]
    /\ Len(game_state_in[1].valid_cards) = 2
    /\ "policy" \in Elements(stages[1]) /\ "policy" \in Elements(stages[2])
    /\ response[1].success
    /\ response[1] = response[2]

(***************************************************************************)
(* The rule engine on its own: get_ai_move with no model loaded, as a      *)
(* function of the request.                                                *)
(***************************************************************************)
\* the engine variables, which the application of one function leaves alone
engine_vars ==
    <<engine_fixed, decisions_made, confidence_total, pc, game_state_in,
      processed_state, strategic_context, card_probs, response, loaded_value,
      stages, calls, ok_calls, ok_confidence>>

\* the engine is constructed and the function's input is chosen
ProbeInit(inputs) ==
    /\ EngineInit
    /\ models = {}
    /\ probe_in \in inputs
    /\ probe_out = NoValue
    /\ FlutterInit

\* validation, analysis and the rule engine's decision for one request
RuleEngineDecision(game_state) ==
    LET processed == _process_enhanced_game_state(game_state)
    IN _get_enhanced_fallback_decision(processed, _analyze_strategic_context(processed))

\* what a request may carry beside the legal cards, the mode and the cards
\* of the trick: the hand and the optional fields
OtherFields ==
    { [player_cards |-> 9],
      [player_cards |-> 5, tricks_won |-> 1, round_number |-> 2, trick_number |-> 6,
       scores |-> <<10, 0, 5, 0>>, cards_played_history |-> {2, 23}],
      [player_cards |-> 3, tricks_won |-> 2, round_number |-> 3, trick_number |-> 11,
       scores |-> <<40, 15, 0, 5>>, cards_played_history |-> {2, 28, 37}] }

\* complete requests whose mode is a string (the analysis of any other
\* raises before the rule engine is reached)
StringModeRequests == {r \in CompleteRequests : r.game_mode # NonStringMode}

\* pairs of requests that agree on valid_cards, game_mode and played_cards
AgreeingPairs ==
    { <<o1 @@ r, o2 @@ r>> : r \in StringModeRequests, o1 \in OtherFields, o2 \in OtherFields }

\* the rule engine decides for both requests of the pair
ProbeFallbackPair ==
    /\ probe_out = NoValue
    /\ probe_out' = [op |-> "fallback_pair",
                     out |-> <<RuleEngineDecision(probe_in[1]), RuleEngineDecision(probe_in[2])>>]
    /\ UNCHANGED <<probe_in, engine_vars, flutter_vars>>

SpecIndependence == ProbeInit(AgreeingPairs) /\ [][ProbeFallbackPair]_vars

\* C13: two requests that agree on valid_cards, game_mode and the number of
\* played_cards get the same best_card and the same confidence from the rule
\* engine, whatever their player_cards, scores, history, round and trick
\* number.
SelectionIgnoresOtherFields ==
    (probe_out # NoValue /\ probe_out.op = "fallback_pair"
     /\ probe_in[1].valid_cards = probe_in[2].valid_cards
     /\ probe_in[1].game_mode = probe_in[2].game_mode
     /\ probe_in[1].played_cards = probe_in[2].played_cards)
    => /\ probe_out.out[1].best_card = probe_out.out[2].best_card
       /\ probe_out.out[1].confidence = probe_out.out[2].confidence

\* C13 witness: the two requests differ in hand, scores, history, round and
\* trick number, their advisory notes differ, and the rule engine has chosen
\* between two legal cards for both.
SelectionIgnoresOtherFieldsWitness ==
    /\ probe_out # NoValue /\ probe_out.op = "fallback_pair"
    /\ Len(probe_in[1].valid_cards) = 2
    /\ probe_in[1].player_cards = 5 /\ probe_in[2].player_cards = 3
    /\ probe_out.out[1].success /\ probe_out.out[2].success
    /\ probe_out.out[1].strategic_context.multi_trick_planning
         # probe_out.out[2].strategic_context.multi_trick_planning
    /\ probe_out.out[1].strategic_context.card_counting
         # probe_out.out[2].strategic_context.card_counting
    /\ probe_out.out[1].best_card = probe_out.out[2].best_card

(***************************************************************************)
(* The analysis and the three selection functions, each applied on its own *)
(* to the processed state of a request.                                    *)
(***************************************************************************)
\* longest list of legal cards given to a selection function
MaxLegal == 3

\* cards already played in the trick, one more than a trick of four holds
ProbePlayedCounts == 0..4

\* the seat of the player: the field is optional
Seats == { [player_position |-> 0], [player_position |-> 3] }

RuleBaseRequests ==
    [present : {AllFields}, player_cards : HandSizes, valid_cards : SeqsUpTo(MaxLegal),
     game_mode : ModeValues \ {NonStringMode}, played_cards : ProbePlayedCounts]

RuleRequests == RuleBaseRequests \cup { o @@ r : r \in RuleBaseRequests, o \in Seats }

\* _analyze_strategic_context on the processed state of the request
ProbeAnalyze ==
    /\ probe_out = NoValue
    /\ LET processed == _process_enhanced_game_state(probe_in)
       IN probe_out' = [op |-> "analyze",
                        position_type |-> processed.position_type,
                        out |-> _analyze_strategic_context(processed)]
    /\ UNCHANGED <<probe_in, engine_vars, flutter_vars>>

ProbeConservative ==
    /\ probe_out = NoValue
    /\ probe_in.valid_cards # << >>
    /\ LET processed == _process_enhanced_game_state(probe_in)
       IN probe_out' = [op |-> "conservative",
                        out |-> _select_conservative_card(processed.valid_cards, processed)]
    /\ UNCHANGED <<probe_in, engine_vars, flutter_vars>>

ProbeBalanced ==
    /\ probe_out = NoValue
    /\ probe_in.valid_cards # << >>
    /\ LET processed == _process_enhanced_game_state(probe_in)
       IN probe_out' = [op |-> "balanced",
                        out |-> _select_balanced_card(processed.valid_cards, processed)]
    /\ UNCHANGED <<probe_in, engine_vars, flutter_vars>>

ProbeInformed ==
    /\ probe_out = NoValue
    /\ probe_in.valid_cards # << >>
    /\ LET processed == _process_enhanced_game_state(probe_in)
       IN probe_out' = [op |-> "informed",
                        out |-> _select_informed_card(processed.valid_cards, processed,
                                                      _analyze_strategic_context(processed))]
    /\ UNCHANGED <<probe_in, engine_vars, flutter_vars>>

NextRules == ProbeAnalyze \/ ProbeConservative \/ ProbeBalanced \/ ProbeInformed

SpecRules == ProbeInit(RuleRequests) /\ [][NextRules]_vars

\* the function named op has been applied to the request
Applied(op) == probe_out # NoValue /\ probe_out.op = op

\* the legal cards of the request that are no penalty cards under its mode
SafeCards == {c \in Elements(probe_in.valid_cards) : ~ _is_penalty_card(c, probe_in.game_mode)}

\* the cards the selection takes from: the safe ones, all when none is safe
Candidates == IF SafeCards # {} THEN SafeCards ELSE Elements(probe_in.valid_cards)

\* C14: _select_conservative_card returns the minimum-rank card of the
\* non-penalty legal cards (of all legal cards when none is safe), and among
\* cards of equal minimum rank the one with the lowest card index.
ConservativeIsLowestIndexOfMinRank ==
    Applied("conservative")
    => /\ probe_out.out \in Candidates
       /\ \A c \in Candidates :
              \/ Rank(probe_out.out) < Rank(c)
              \/ Rank(probe_out.out) = Rank(c) /\ probe_out.out <= c

\* the candidates in ascending order of rank
SortedCandidates ==
    LET safe(c) == c \in SafeCards
        safe_cards == SelectSeq(probe_in.valid_cards, safe)
    IN IF safe_cards # << >> THEN SortedByRank(safe_cards) ELSE SortedByRank(probe_in.valid_cards)

\* C15: _select_balanced_card returns the element at index size/2 of the
\* safe subset sorted by ascending rank, and the element at index size/2 of
\* all legal cards sorted by ascending rank in Kingdom or when no card is
\* safe.
BalancedIsMiddleOfSorted ==
    Applied("balanced")
    => probe_out.out = SortedCandidates[(Len(SortedCandidates) \div 2) + 1]

\* C16: with at least two cards played in the trick _select_informed_card
\* returns a non-penalty legal card of maximum rank if any legal card is
\* safe, and otherwise a legal card of minimum rank.
InformedIsHighestSafe ==
    (Applied("informed") /\ probe_in.played_cards >= 2)
    => /\ probe_out.out \in Candidates
       /\ SafeCards # {} => \A c \in SafeCards : Rank(c) <= Rank(probe_out.out)
       /\ SafeCards = {} => \A c \in Candidates : Rank(probe_out.out) <= Rank(c)

\* C16 witness: two cards are played, the legal cards hold a penalty card
\* and two safe cards of different rank, and the higher safe card is returned.
InformedIsHighestSafeWitness ==
    /\ Applied("informed") /\ probe_in.played_cards = 2
    /\ Cardinality(SafeCards) = 2
    /\ Candidates # Elements(probe_in.valid_cards)
    /\ \E c \in SafeCards : Rank(c) < Rank(probe_out.out)
    /\ probe_out.out \in SafeCards

\* the position class and the strategy of a number of cards played
ExpectedPosition(cards_played) ==
    IF cards_played \in {0, 1}
    THEN [position_type |-> "early_position", strategy |-> "conservative",
          position_advantage |-> "neutral"]
    ELSE IF cards_played = 2
    THEN [position_type |-> "middle_position", strategy |-> "balanced",
          position_advantage |-> "neutral"]
    ELSE [position_type |-> "late_position", strategy |-> "informed",
          position_advantage |-> "high"]

\* C17: the position class and the strategy are a function of the number of
\* cards played in the trick: 0 or 1 gives early and conservative, 2 middle
\* and balanced, 3 or more late and informed with position advantage high;
\* player_position has no influence.
PositionFollowsPlayedCount ==
    Applied("analyze")
    => LET expected == ExpectedPosition(probe_in.played_cards)
       IN /\ probe_out.position_type = expected.position_type
          /\ probe_out.out.strategy = expected.strategy
          /\ expected.position_type = "late_position"
               => probe_out.out.position_advantage = "high"

\* C17 witness: the request of the last seat with no card played is
\* analysed as early position with the conservative strategy.
PositionFollowsPlayedCountWitness ==
    /\ Applied("analyze")
    /\ "player_position" \in DOMAIN probe_in /\ probe_in.player_position = 3
    /\ probe_in.played_cards = 0
    /\ probe_out.position_type = "early_position"
    /\ probe_out.out.strategy = "conservative"

MaxIndex == 55

\* the encoder's dictionaries
EncoderSuits == [hearts |-> 0, diamonds |-> 1, clubs |-> 2, spades |-> 3]

EncoderRanks ==
    [two |-> 2, three |-> 3, four |-> 4, five |-> 5, six |-> 6, seven |-> 7,
     eight |-> 8, nine |-> 9, ten |-> 10, jack |-> 11, queen |-> 12, king |-> 13,
     ace |-> 14]

\* suits.get(suit.lower(), 0) * 13 + (ranks.get(rank.lower(), 2) - 2)
convert_card_to_encoded_value(suit, rank) ==
    LET suit_value == Get(EncoderSuits, Lower(suit), 0)
        rank_value == Get(EncoderRanks, Lower(rank), 2)
    IN suit_value * 13 + (rank_value - 2)

\* the decoder's lists; the suits stand for their symbols
DecoderSuits == <<"clubs", "diamonds", "hearts", "spades">>

DecoderRanks == <<"2", "3", "4", "5", "6", "7", "8", "9", "10", "J", "Q", "K", "A">>

\* list[i] raises IndexError outside -len(list)..len(list)-1
IndexRaises(list, i) == i < 0 - Len(list) \/ i >= Len(list)

\* list[i]: a negative index counts from the end of the list
PyIndex(list, i) == IF i >= 0 THEN list[i + 1] ELSE list[Len(list) + i + 1]

\* the name is the pair of the rank and the suit; // and % are Python's
\* floor division and modulo, as \div and % are
_card_index_to_name(card_index) ==
    LET suit_idx == card_index \div 13
        rank_idx == card_index % 13
    IN IF IndexRaises(DecoderRanks, rank_idx) \/ IndexRaises(DecoderSuits, suit_idx)
       THEN [raises |-> TRUE, error |-> "IndexError"]
       ELSE [raises |-> FALSE,
             name |-> <<PyIndex(DecoderRanks, rank_idx), PyIndex(DecoderSuits, suit_idx)>>]

\* suit and rank names given to the encoder, known and unknown
SuitInputs == DOMAIN EncoderSuits \cup {"Hearts", "stars"}

RankInputs == DOMAIN EncoderRanks \cup {"joker"}

CodecInputs ==
    [op : {"encode"}, suit : SuitInputs, rank : RankInputs]
      \cup [op : {"decode"}, card_index : (0 - MaxIndex)..MaxIndex]

ProbeEncode ==
    /\ probe_out = NoValue
    /\ probe_in.op = "encode"
    /\ probe_out' = [op |-> "encode",
                     out |-> convert_card_to_encoded_value(probe_in.suit, probe_in.rank)]
    /\ UNCHANGED <<probe_in, engine_vars, flutter_vars>>

ProbeDecode ==
    /\ probe_out = NoValue
    /\ probe_in.op = "decode"
    /\ probe_out' = [op |-> "decode", out |-> _card_index_to_name(probe_in.card_index)]
    /\ UNCHANGED <<probe_in, engine_vars, flutter_vars>>

\* a card is encoded and the index is decoded
ProbeRoundTrip ==
    /\ probe_out = NoValue
    /\ probe_in.op = "encode"
    /\ LET card_index == convert_card_to_encoded_value(probe_in.suit, probe_in.rank)
       IN probe_out' = [op |-> "round_trip", card_index |-> card_index,
                        out |-> _card_index_to_name(card_index)]
    /\ UNCHANGED <<probe_in, engine_vars, flutter_vars>>

NextCodec == ProbeEncode \/ ProbeDecode \/ ProbeRoundTrip

SpecCodec == ProbeInit(CodecInputs) /\ [][NextCodec]_vars

\* the decoder's rank of a rank name
RankSymbol(rank) == DecoderRanks[EncoderRanks[rank] - 1]

\* C19: for every suit and rank, decoding the index produced by encoding
\* yields the same suit and rank, and the encoded index of every hearts card
\* satisfies the heart predicate (26..38).
DecodeInvertsEncode ==
    (Applied("round_trip") /\ probe_in.suit \in DOMAIN EncoderSuits
                           /\ probe_in.rank \in DOMAIN EncoderRanks)
    => /\ ~ probe_out.out.raises
       /\ probe_out.out.name = <<RankSymbol(probe_in.rank), probe_in.suit>>
       /\ probe_in.suit = "hearts" => _is_heart_card(probe_out.card_index)

\* C20: decoding an integer outside 0..51 fails instead of returning a card
\* name, and encoding an unknown suit or rank name fails instead of
\* returning an index.
CodecRejectsOutOfRange ==
    /\ (Applied("decode") /\ probe_in.card_index \notin 0..51) => probe_out.out.raises
    /\ ~ ( /\ Applied("encode")
           /\ \/ Lower(probe_in.suit) \notin DOMAIN EncoderSuits
              \/ Lower(probe_in.rank) \notin DOMAIN EncoderRanks )

(***************************************************************************)
(* _is_penalty_card applied on its own to a card of the deck and a mode.   *)
(***************************************************************************)
\* the cards of the deck
Deck == 0..51

PenaltyInputs == [op : {"penalty"}, card : Deck, game_mode : ModeValues \ {NonStringMode}]

ProbePenalty ==
    /\ probe_out = NoValue
    /\ probe_out' = [op |-> "penalty", out |-> _is_penalty_card(probe_in.card, probe_in.game_mode)]
    /\ UNCHANGED <<probe_in, engine_vars, flutter_vars>>

SpecPenalty == ProbeInit(PenaltyInputs) /\ [][ProbePenalty]_vars

\* the penalty set of a mode, by suit (index div 13) and rank (index mod 13)
PenaltySet(mode) ==
    IF mode = "hearts" THEN {c \in Deck : c \div 13 = 2}
    ELSE IF mode = "queens" THEN {c \in Deck : c % 13 = 10}
    ELSE IF mode = "diamonds" THEN {c \in Deck : c \div 13 = 1}
    ELSE IF mode = "king_of_hearts" THEN {37}
    ELSE {}

\* C21: for every card of the deck and every mode _is_penalty_card holds
\* exactly for the mode's penalty set: none in kingdom, the hearts in
\* hearts, the four queens in queens, the diamonds in diamonds, card 37 in
\* king_of_hearts.
PenaltyCardsAreTheModesSet ==
    (Applied("penalty") /\ Lower(probe_in.game_mode) \in KnownModes)
    => (probe_out.out <=> probe_in.card \in PenaltySet(Lower(probe_in.game_mode)))

\* C21 witness: the predicate was applied to the first card above the
\* hearts in hearts mode and found it no penalty card.
PenaltyCardsWitness ==
    /\ Applied("penalty")
    /\ probe_in.game_mode = "hearts" /\ probe_in.card = 39
    /\ ~ probe_out.out

(***************************************************************************)
(* _prepare_neural_network_input applied on its own.  A feature is kept    *)
(* as its multiple of 1/52, which is exact for n/13, n/4, 0.5 and 1.0.     *)
(***************************************************************************)
\* requests with a string mode, with and without the optional fields
FeatureRequests == { o @@ r : r \in StringModeRequests, o \in OtherFields }

ProbeFeatures ==
    /\ probe_out = NoValue
    /\ LET processed == _process_enhanced_game_state(probe_in)
           context == _analyze_strategic_context(processed)
       IN probe_out' = [op |-> "features",
                        position_type |-> processed.position_type,
                        penalty_risk |-> context.penalty_risk,
                        out |-> _prepare_neural_network_input(processed, context)]
    /\ UNCHANGED <<probe_in, engine_vars, flutter_vars>>

SpecFeatures == ProbeInit(FeatureRequests) /\ [][ProbeFeatures]_vars

\* the risk tier of the request: the tier of the mode's rule on the legal
\* cards, low in early position
RequestRiskTier ==
    IF probe_out.position_type = "early_position" THEN "low" ELSE probe_out.penalty_risk

\* C22: the feature vector has exactly 128 elements, its elements 12..127
\* are zero, and its element 9 encodes the request's risk tier (the per-mode
\* rule on the legal cards, low in early position) as 0.0 for low, 0.5 for
\* medium and 1.0 for high.
FeatureVectorEncodesRiskTier ==
    Applied("features")
    => /\ Len(probe_out.out) = 128
       /\ \A i \in 12..127 : probe_out.out[i + 1] = 0
       /\ probe_out.out[9 + 1] = RiskLevelFeature(RequestRiskTier)

\* C23: a request whose game_mode is not one of kingdom, hearts, queens,
\* diamonds, king_of_hearts is not handled as a mode with no penalty cards:
\* it never gets a response with success = True.
UnknownModeIsRejected ==
    \A t \in AllThreads :
        (Done(t) /\ Complete(game_state_in[t]) /\ ~ Recognised(game_state_in[t]))
        => ~ response[t].success

\* C24: across any sequence of get_ai_move calls decisions_made and
\* confidence_total never decrease, and no step of a call changes models,
\* model_loaded, penalty_tracker, strategic_memory or the request of a call
\* in progress.
CallsChangeCountersOnly ==
    [][ /\ decisions_made' >= decisions_made
        /\ confidence_total' >= confidence_total
        /\ models' = models /\ model_loaded' = model_loaded
        /\ penalty_tracker' = penalty_tracker /\ strategic_memory' = strategic_memory
        /\ \A t \in AllThreads :
               (pc[t] # "idle" /\ pc'[t] # "idle") => game_state_in'[t] = game_state_in[t]
      ]_vars

\* C24 witness: two calls on an engine with a loaded model have raised both
\* counters, the second has just returned a decision, and the rest of the
\* engine is as constructed.
CallsChangeCountersOnlyWitness ==
    /\ model_loaded /\ models # {}
    /\ decisions_made = 2 /\ confidence_total > ConfidenceCap
    /\ Done(1) /\ response[1].success
    /\ game_state_in[1] # NoValue
    /\ strategic_memory = << >>
    /\ penalty_tracker.hearts = << >>

\* C26: every rule-engine decision has confidence 0.85 exactly when the
\* position is late (three or more cards already played) and 0.65 in every
\* other position; no rule-engine confidence exceeds 0.85.
RuleConfidenceFollowsPosition ==
    \A t \in AllThreads :
        (Done(t) /\ response[t].success /\ response[t].decision_type = "strategic_fallback")
        => /\ response[t].confidence = 85 <=> game_state_in[t].played_cards >= 3
           /\ response[t].confidence = 65 <=> game_state_in[t].played_cards < 3
           /\ response[t].confidence <= 85

\* C26 witness: the second call on an engine has returned a rule-engine
\* decision of confidence 0.85 in late position after one of 0.65.
RuleConfidenceWitness ==
    /\ Done(1) /\ response[1].success
    /\ response[1].decision_type = "strategic_fallback"
    /\ game_state_in[1].played_cards = 3
    /\ response[1].strategic_context.position_advantage = "high"
    /\ response[1].confidence = 85
    /\ ok_calls = 1 /\ ok_confidence = 65

\* C28: whenever get_ai_move comes to the rule engine with the strategy
\* 'informed', so that _select_informed_card is invoked, at least three cards
\* have been played in the trick: the branch of _select_informed_card for
\* fewer than two played cards is not reached.
InformedOnlyInLatePosition ==
    \A t \in AllThreads :
        (pc[t] = "fallback" /\ strategic_context[t].strategy = "informed")
        => processed_state[t].played_cards >= 3

\* C28 witness: a call stands before the rule engine with the strategy
\* 'informed', two legal cards and three cards played.
InformedOnlyInLatePositionWitness ==
    /\ pc[1] = "fallback"
    /\ strategic_context[1].strategy = "informed"
    /\ Len(processed_state[1].valid_cards) = 2
    /\ processed_state[1].played_cards = 3
    /\ FallbackCard(processed_state[1], strategic_context[1])
         = _select_informed_card(processed_state[1].valid_cards, processed_state[1],
                                 strategic_context[1])

(***************************************************************************)
(* TrexAIForFlutter.get_ai_move.  The model is an external component: its  *)
(* prediction is any action or an exception, whatever the observation      *)
(* _convert_to_model_format builds (which reads the request with defaults  *)
(* and raises nothing on a request of cards).                              *)
(***************************************************************************)
\* largest action the model predicts; the smallest is -1
MaxAction == 2

ModelActions == (0 - 1)..MaxAction

\* requests with a list of valid cards, and one without the field
FlutterRequests == [valid_cards : SeqsUpTo(MaxLen)] \cup {[game_mode |-> "kingdom"]}

\* get_ai_move is called
FlutterCall(game_state) ==
    /\ flutter_pc = "idle"
    /\ flutter_calls < MaxCalls
    /\ flutter_calls' = flutter_calls + 1
    /\ flutter_request' = game_state
    /\ flutter_pc' = IF flutter_ai.model_loaded THEN "predict" ELSE "load"
    /\ UNCHANGED <<flutter_ai, flutter_attempts, flutter_response, probe_vars, engine_vars>>

\* if not self.model_loaded: self.load_best_available_model(), with what the
\* loader finds for each model at this moment
FlutterLoad(found) ==
    /\ flutter_pc = "load"
    /\ LET loaded == load_best_available_model(found)
       IN /\ flutter_attempts' = loaded.attempts
          /\ IF loaded.model_name # "None"
             THEN /\ flutter_ai' = [model_name |-> loaded.model_name, model_loaded |-> TRUE]
                  /\ flutter_pc' = "predict"
             ELSE /\ flutter_pc' = "fallback"
                  /\ UNCHANGED flutter_ai
    /\ UNCHANGED <<flutter_request, flutter_response, flutter_calls, probe_vars, engine_vars>>

\* the try block: the model predicts an action, which is converted to a card
FlutterPredict(action) ==
    /\ flutter_pc = "predict"
    /\ flutter_response' = PredictionResult(action, flutter_request, flutter_ai.model_name)
    /\ flutter_pc' = "done"
    /\ UNCHANGED <<flutter_ai, flutter_request, flutter_attempts, flutter_calls,
                   probe_vars, engine_vars>>

\* the try block raises: except Exception returns the fallback move
FlutterPredictFails ==
    /\ flutter_pc = "predict"
    /\ flutter_pc' = "fallback"
    /\ UNCHANGED <<flutter_ai, flutter_request, flutter_attempts, flutter_response,
                   flutter_calls, probe_vars, engine_vars>>

\* return self._fallback_move(game_state)
FlutterFallback ==
    /\ flutter_pc = "fallback"
    /\ flutter_response' = _fallback_move(flutter_request)
    /\ flutter_pc' = "done"
    /\ UNCHANGED <<flutter_ai, flutter_request, flutter_attempts, flutter_calls,
                   probe_vars, engine_vars>>

\* the caller has the response; the locals of the call are gone
FlutterReturn ==
    /\ flutter_pc = "done"
    /\ flutter_pc' = "idle"
    /\ flutter_request' = NoValue
    /\ flutter_attempts' = << >>
    /\ flutter_response' = NoValue
    /\ UNCHANGED <<flutter_ai, flutter_calls, probe_vars, engine_vars>>

NextFlutter ==
    \/ \E game_state \in FlutterRequests : FlutterCall(game_state)
    \/ \E found \in [1..Len(BEST_MODELS) -> LoadOutcomes] : FlutterLoad(found)
    \/ \E action \in ModelActions : FlutterPredict(action)
    \/ FlutterPredictFails
    \/ FlutterFallback
    \/ FlutterReturn

SpecFlutter == Init /\ [][NextFlutter]_vars

\* C25: for TrexAIForFlutter.get_ai_move, with the model loaded, not
\* loadable or its prediction failing, a response with success = True has a
\* best_card taken from valid_cards, and a request with an empty valid_cards
\* list gets success = False.
FlutterBestCardIsValid ==
    flutter_pc = "done"
    => LET valid_cards == Get(flutter_request, "valid_cards", << >>)
       IN /\ flutter_response.success => flutter_response.best_card \in Elements(valid_cards)
          /\ valid_cards = << >> => ~ flutter_response.success

\* what holds of the load attempts of a call in every state
LoadingOrder ==
    /\ flutter_attempts # << >> => flutter_attempts[1].name = "Generation 100 (BEST)"
    /\ Len(flutter_attempts) >= 2
         => /\ flutter_attempts[1].outcome \in {"missing", "fails"}
            /\ flutter_attempts[2].name = "Generation 99 (2nd BEST)"
    /\ (flutter_pc = "done" /\ ~ flutter_ai.model_loaded)
         => /\ flutter_attempts # << >>
            /\ \A i \in 1..Len(flutter_attempts) : flutter_attempts[i].outcome # "loads"
            /\ flutter_response = _fallback_move(flutter_request)

\* what holds of every step of a call
LoadingStep ==
    /\ (flutter_pc = "idle" /\ flutter_pc' # "idle" /\ ~ flutter_ai.model_loaded)
         => flutter_pc' = "load"
    /\ (flutter_pc = "load" /\ flutter_pc' # "load") => flutter_attempts' # << >>
    /\ (flutter_ai'.model_name = "Generation 99 (2nd BEST)" /\ flutter_ai' # flutter_ai)
         => flutter_attempts'[1].outcome \in {"missing", "fails"}
    /\ flutter_ai.model_loaded
         => /\ flutter_ai' = flutter_ai
            /\ Len(flutter_attempts') <= Len(flutter_attempts)

\* C27: Generation 100 is tried before Generation 99, and Generation 99 is
\* loaded only when Generation 100's file is missing or fails to load; while
\* model_loaded is false every get_ai_move call attempts loading and answers
\* with the fallback move if loading fails; once model_loaded is true it
\* stays true and loading is not attempted again.
LoaderPrefersGeneration100 == [] LoadingOrder /\ [][LoadingStep]_vars

\* C27 witness: Generation 99 was loaded by the first call, and the second
\* call has gone to the prediction with no load attempt.
LoaderWitness ==
    /\ flutter_ai.model_loaded
    /\ flutter_ai.model_name = "Generation 99 (2nd BEST)"
    /\ flutter_calls = 2
    /\ flutter_pc = "predict"
    /\ flutter_attempts = << >>

=============================================================================
